---- MODULE Spec2Model ----
(***************************************************************************)
(* Model of the system monitor in "Wipro/System Monitor Tool/Main.cpp":    *)
(* the /proc scan (read_all_procs), the accounting step                    *)
(* (compute_cpu_mem_percent), the ranking (std::sort in main) and the      *)
(* refresh loop of main with its key handling.                             *)
(*                                                                         *)
(* Text is a sequence of one-character strings.  A double (cpu_percent,    *)
(* mem_percent) is an exact rational in lowest terms, [n |-> , d |-> ]; the *)
(* rounding of IEEE doubles is monotone, so comparisons against 0, 100 and *)
(* each other are those of the rationals.                                  *)
(***************************************************************************)
EXTENDS Integers, Sequences, FiniteSets, Bags, TLC

VARIABLES
    proc_ok,          \* environment: /proc can be opened (fixed at start)
    hw,               \* environment: MemTotal of /proc/meminfo, "processor" lines of /proc/cpuinfo
    rows,             \* main: rows of the screen (getmaxyx)
    pc,               \* main: position of the program
    prev_snap,        \* main: SystemSnapshot prev_snap
    prev_procs,       \* main: std::map<int, ProcInfo> prev_procs
    cur_snap,         \* main: SystemSnapshot cur_snap (loop body local)
    cur_procs,        \* main: std::map<int, ProcInfo> cur_procs (loop body local)
    plist,            \* main: std::vector<ProcInfo> plist (loop body local)
    refresh_interval, \* main: int refresh_interval
    sort_by_cpu,      \* main: bool sort_by_cpu
    offset,           \* main: int offset
    input,            \* the terminal's queue of keys not yet returned by getch()
    cycle,            \* history: iterations of the loop begun (0, 1, 2 = two or more)
    last_sleep,       \* history: argument of the latest sleep_for (0: none yet)
    requested,        \* history: interval asked for by the latest 'r' returned by getch (0: none)
    quit_waits,       \* history: waits that ended while a 'q' was in the queue
    live,             \* history: the pids alive when the current cycle read /proc
    dirents,          \* read_all_procs: entries of /proc not yet visited by readdir
    procfs,           \* environment: pid -> contents of /proc/<pid>/stat during the scan
    procs             \* read_all_procs: std::map<int, ProcInfo> procs being built

vars == <<proc_ok, hw, rows, pc, prev_snap, prev_procs, cur_snap, cur_procs, plist,
          refresh_interval, sort_by_cpu, offset, input, cycle, last_sleep,
          requested, quit_waits, live, dirents, procfs, procs>>

mainVars == <<proc_ok, hw, rows, prev_snap, prev_procs, cur_snap, cur_procs, plist,
              refresh_interval, sort_by_cpu, offset, input, cycle, last_sleep,
              requested, quit_waits, live>>

(***************************************************************************)
(* Bounds of the model.                                                    *)
(***************************************************************************)
MaxPid == 2
MaxQueue == 2

Pids == 1..MaxPid

(***************************************************************************)
(* Text: characters, decimal formatting and parsing.                       *)
(***************************************************************************)
DigitChars == <<"0", "1", "2", "3", "4", "5", "6", "7", "8", "9">>

IsDigit(c) == c \in {"0", "1", "2", "3", "4", "5", "6", "7", "8", "9"}

DigitVal(c) ==
    CASE c = "0" -> 0 [] c = "1" -> 1 [] c = "2" -> 2 [] c = "3" -> 3 [] c = "4" -> 4
      [] c = "5" -> 5 [] c = "6" -> 6 [] c = "7" -> 7 [] c = "8" -> 8 [] c = "9" -> 9

RECURSIVE ToDigits(_)
\* std::to_string / the kernel's %lu of a non-negative number
ToDigits(n) ==
    IF n < 10 THEN <<DigitChars[n + 1]>>
    ELSE ToDigits(n \div 10) \o <<DigitChars[(n % 10) + 1]>>

RECURSIVE FindFrom(_, _, _)
FindFrom(s, c, i) ==
    IF i > Len(s) THEN 0 ELSE IF s[i] = c THEN i ELSE FindFrom(s, c, i + 1)

\* std::string::find(c): the 1-based index of the first c, 0 for npos
Find(s, c) == FindFrom(s, c, 1)

RECURSIVE RFindFrom(_, _, _)
RFindFrom(s, c, i) ==
    IF i < 1 THEN 0 ELSE IF s[i] = c THEN i ELSE RFindFrom(s, c, i - 1)

\* std::string::rfind(c): the 1-based index of the last c, 0 for npos
RFind(s, c) == RFindFrom(s, c, Len(s))

RECURSIVE SplitFrom(_, _, _, _)
\* the getline loop of split: item is the piece being read, out the pieces kept
SplitFrom(s, i, item, out) ==
    IF i > Len(s)
    THEN IF item # <<>> THEN Append(out, item) ELSE out
    ELSE IF s[i] = " "
         THEN SplitFrom(s, i + 1, <<>>, IF item # <<>> THEN Append(out, item) ELSE out)
         ELSE SplitFrom(s, i + 1, Append(item, s[i]), out)

split(s) == SplitFrom(s, 1, <<>>, <<>>)

RECURSIVE DigitPrefixVal(_, _, _)
DigitPrefixVal(tok, i, acc) ==
    IF i <= Len(tok) /\ IsDigit(tok[i])
    THEN DigitPrefixVal(tok, i + 1, acc * 10 + DigitVal(tok[i]))
    ELSE acc

\* std::stoul / std::stoull / std::stol of a token without sign or blanks:
\* the value of the leading digits; std::invalid_argument when there is none
Stoul(tok) ==
    IF tok # <<>> /\ IsDigit(tok[1])
    THEN [ok |-> TRUE, val |-> DigitPrefixVal(tok, 1, 0)]
    ELSE [ok |-> FALSE, val |-> 0]

(***************************************************************************)
(* read_all_procs: one /proc/<pid>/stat record to one ProcInfo.            *)
(***************************************************************************)
\* the fewest fields after the command name for the counters to be parsed
MinFields == 22

\* 0-based positions in toks of utime, stime, cutime, cstime, starttime, vsize, rss,
\* in the order of the stoul calls
FieldIndex == <<11, 12, 13, 14, 19, 20, 21>>

\* a stat file that cannot be opened (the process is gone)
NoFile == <<"ENOENT">>

\* the double 0.0
Zero == [n |-> 0, d |-> 1]

RECURSIVE ParseFrom(_, _, _)
\* the try block from its k-th assignment on: a throw leaves the counters not
\* yet assigned as they are
ParseFrom(toks, k, acc) ==
    IF k > Len(FieldIndex) THEN acc
    ELSE LET r == Stoul(toks[FieldIndex[k] + 1])
         IN  IF r.ok THEN ParseFrom(toks, k + 1, [acc EXCEPT ![k] = r.val]) ELSE acc

\* utime, stime, cutime, cstime, starttime, vsize, rss: all 0 unless there are
\* enough fields
ParseCounters(toks) ==
    IF Len(toks) >= MinFields
    THEN ParseFrom(toks, 1, <<0, 0, 0, 0, 0, 0, 0>>)
    ELSE <<0, 0, 0, 0, 0, 0, 0>>

\* ProcInfo p as filled at the end of the loop body (cmd and user only feed the display)
MakeProcInfo(pid, c) ==
    [pid |-> pid,
     utime |-> c[1], stime |-> c[2], cutime |-> c[3], cstime |-> c[4],
     total_time |-> c[1] + c[2] + c[3] + c[4],
     starttime |-> c[5], vsize |-> c[6], rss |-> c[7],
     cpu_percent |-> Zero, mem_percent |-> Zero]

\* full.substr(rp+2) throws std::out_of_range when rp+2 > full.size(); rp is 1-based
\* here, so the 0-based rp+2 is rp+1 and the text kept starts at 1-based rp+2
SubstrThrows(full, rp) == rp + 1 > Len(full)

AfterParen(full, rp) == SubSeq(full, rp + 2, Len(full))

\* the body of the readdir loop for one entry name: "skip" for a continue,
\* "throw" for the uncaught exception, "add" with the map after procs[pid] = p
ScanEntry(map, name, fs) ==
    IF ~IsDigit(name[1]) THEN [status |-> "skip", procs |-> map]
    ELSE LET pid == DigitPrefixVal(name, 1, 0)
             statline == IF pid \in DOMAIN fs THEN fs[pid] ELSE NoFile
         IN  IF statline = NoFile THEN [status |-> "skip", procs |-> map]
             ELSE LET p1 == Find(statline, "(")
                      rp == RFind(statline, ")")
                  IN  IF p1 = 0 \/ rp = 0
                      THEN [status |-> "skip", procs |-> map]
                      ELSE IF SubstrThrows(statline, rp)
                      THEN [status |-> "throw", procs |-> map]
                      ELSE LET toks == split(AfterParen(statline, rp))
                               p == MakeProcInfo(pid, ParseCounters(toks))
                           IN  [status |-> "add",
                                procs |-> [q \in (DOMAIN map) \cup {pid} |->
                                              IF q = pid THEN p ELSE map[q]]]

EmptyMap == [q \in {} |-> Zero]

RECURSIVE ScanAll(_, _, _)
\* the whole readdir loop over the entry names left, in some directory order
ScanAll(map, names, fs) ==
    IF names = {} THEN [status |-> "done", procs |-> map]
    ELSE LET name == CHOOSE x \in names : TRUE
             r == ScanEntry(map, name, fs)
         IN  IF r.status = "throw" THEN r
             ELSE ScanAll(r.procs, names \ {name}, fs)

\* read_all_procs(): an empty map when /proc cannot be opened
read_all_procs(ok, names, fs) ==
    IF ~ok THEN [status |-> "done", procs |-> EmptyMap]
    ELSE ScanAll(EmptyMap, names, fs)

(***************************************************************************)
(* The kernel's side of /proc: the stat record of a live process.          *)
(***************************************************************************)
Blank(n) == [i \in 1..n |-> IF i % 2 = 1 THEN " " ELSE "0"]

\* "<pid> (a) S" then ppid .. cmajflt (10 fields), utime stime cutime cstime,
\* priority nice num_threads itrealvalue, starttime vsize rss
StatRecord(pid, utimeTok, rssTok) ==
    ToDigits(pid) \o <<" ", "(", "a", ")", " ", "S">> \o Blank(20)
      \o <<" ">> \o utimeTok \o Blank(6)
      \o Blank(8) \o Blank(4) \o <<" ">> \o rssTok

ProcStatLine(pid, utime, rss) == StatRecord(pid, ToDigits(utime), ToDigits(rss))

\* the names readdir returns for a set of live pids, and a non-numeric entry
DirNames(pids) == {ToDigits(pid) : pid \in pids} \cup {<<"s", "e", "l", "f">>}

\* /proc/<pid>/stat for a kernel process table t: pid -> [utime, rss]
ProcFsOf(t) == [pid \in DOMAIN t |-> ProcStatLine(pid, t[pid].utime, t[pid].rss)]

(***************************************************************************)
(* read_system_snapshot.                                                   *)
(***************************************************************************)
RECURSIVE SumSeq(_)
SumSeq(s) == IF s = <<>> THEN 0 ELSE Head(s) + SumSeq(Tail(s))

\* read_total_jiffies(): the sum of the numbers of the first line of /proc/stat,
\* 0 when the line cannot be read
read_total_jiffies(ok, cpuLine) == IF ok THEN SumSeq(cpuLine) ELSE 0

Max(a, b) == IF a >= b THEN a ELSE b

\* read_system_snapshot(): mem_free_kb and mem_available_kb are read and never used
read_system_snapshot(ok, cpuLine, h) ==
    [total_jiffies |-> read_total_jiffies(ok, cpuLine),
     mem_total_kb |-> IF ok THEN h.mem_total_kb ELSE 0,
     num_cpus |-> Max(1, IF ok THEN h.processors ELSE 0)]

(***************************************************************************)
(* compute_cpu_mem_percent.                                                *)
(***************************************************************************)
RECURSIVE GCD(_, _)
GCD(a, b) == IF b = 0 THEN a ELSE GCD(b, a % b)

\* the double n / d, d > 0, n >= 0
Rat(n, d) == IF n = 0 THEN Zero ELSE [n |-> n \div GCD(n, d), d |-> d \div GCD(n, d)]

RatLess(a, b) == a.n * b.d < b.n * a.d

RatLeq(a, b) == a.n * b.d <= b.n * a.d

\* sysconf(_SC_PAGESIZE) / 1024 for 4 KiB pages
PageSizeKB == 4

\* a faulty total_diff: the distance between the counters, whichever is larger
TotalDiffAbs(cur, prev) ==
    IF cur.total_jiffies >= prev.total_jiffies
    THEN cur.total_jiffies - prev.total_jiffies
    ELSE prev.total_jiffies - cur.total_jiffies

\* total_diff: the jiffies elapsed between the snapshots, 0 when the counter regressed
TotalDiff(cur, prev) ==
    IF cur.total_jiffies >= prev.total_jiffies
    THEN cur.total_jiffies - prev.total_jiffies
    ELSE 0

\* a faulty cpu_percent: the factor num_cpus is left out
CpuPercentOneCpu(p, prev, cur, total_diff) ==
    IF p.pid \in DOMAIN prev /\ total_diff > 0
    THEN LET prev_time == prev[p.pid].total_time
             diff == IF p.total_time >= prev_time THEN p.total_time - prev_time ELSE 0
         IN  Rat(diff * 100, total_diff)
    ELSE Zero

\* p.cpu_percent after the loop body
CpuPercent(p, prev, cur, total_diff) ==
    IF p.pid \in DOMAIN prev /\ total_diff > 0
    THEN LET prev_time == prev[p.pid].total_time
             diff == IF p.total_time >= prev_time THEN p.total_time - prev_time ELSE 0
         IN  Rat(diff * 100 * cur.num_cpus, total_diff)
    ELSE Zero

\* p.mem_percent after the loop body
MemPercent(p, cur) ==
    IF cur.mem_total_kb > 0
    THEN Rat(p.rss * PageSizeKB * 100, cur.mem_total_kb)
    ELSE Zero

\* a faulty accounting: the entries of prev that are gone from procs are kept
ComputeKeepingGone(map, prev, cur, prevSnap) ==
    [pid \in DOMAIN map \cup DOMAIN prev |->
        IF pid \in DOMAIN map
        THEN [map[pid] EXCEPT
                !.cpu_percent = CpuPercent(map[pid], prev, cur, TotalDiff(cur, prevSnap)),
                !.mem_percent = MemPercent(map[pid], cur)]
        ELSE prev[pid]]

\* procs after compute_cpu_mem_percent(procs, prev, cur_snap, prev_snap)
compute_cpu_mem_percent(map, prev, cur, prevSnap) ==
    [pid \in DOMAIN map |->
        [map[pid] EXCEPT !.cpu_percent = CpuPercent(map[pid], prev, cur, TotalDiff(cur, prevSnap)),
                         !.mem_percent = MemPercent(map[pid], cur)]]

(***************************************************************************)
(* Ranking: plist and std::sort.                                           *)
(***************************************************************************)
RECURSIVE MapValues(_, _)
\* the push_back loop over the map, in key order
MapValues(map, done) ==
    IF DOMAIN map \ done = {} THEN <<>>
    ELSE LET k == CHOOSE x \in DOMAIN map \ done : \A y \in DOMAIN map \ done : x <= y
         IN  <<map[k]>> \o MapValues(map, done \cup {k})

\* faulty lambdas: ascending instead of descending
CompAscending(a, b, by_cpu) ==
    IF by_cpu THEN RatLess(a.cpu_percent, b.cpu_percent)
    ELSE RatLess(a.mem_percent, b.mem_percent)

\* the two lambdas given to std::sort
Comp(a, b, by_cpu) ==
    IF by_cpu THEN RatLess(b.cpu_percent, a.cpu_percent)
    ELSE RatLess(b.mem_percent, a.mem_percent)

RECURSIVE InsertPos(_, _, _, _)
InsertPos(s, x, j, by_cpu) ==
    IF j >= 1 /\ Comp(x, s[j], by_cpu) THEN InsertPos(s, x, j - 1, by_cpu) ELSE j

RECURSIVE SortFrom(_, _, _)
\* std::sort of libstdc++ on fewer than 16 elements is its insertion sort: each
\* element in turn moves left past the elements it compares before
SortFrom(done, rest, by_cpu) ==
    IF rest = <<>> THEN done
    ELSE LET x == Head(rest)
             j == InsertPos(done, x, Len(done), by_cpu)
         IN  SortFrom(SubSeq(done, 1, j) \o <<x>> \o SubSeq(done, j + 1, Len(done)),
                      Tail(rest), by_cpu)

Sort(s, by_cpu) == SortFrom(<<>>, s, by_cpu)

\* plist as given to draw_processes
Rank(map, by_cpu) == Sort(MapValues(map, {}), by_cpu)

\* the rows draw_processes prints: plist[start .. ], at most height of them
Window(list, start, height) ==
    SubSeq(list, start + 1, IF start + height < Len(list) THEN start + height ELSE Len(list))


(***************************************************************************)
(* The environment's choices.                                              *)
(***************************************************************************)
\* first lines of /proc/stat (after "cpu"): totals 1000, 1020 and 1100
CpuLines == {<<100, 900>>, <<120, 900>>, <<120, 980>>}

\* one first line, for the runs about the keys
CpuLinesFixed == {<<100, 900>>}

\* MemTotal in KB and the number of "processor" lines of /proc/cpuinfo
HwChoices == {[mem_total_kb |-> 0, processors |-> 0],
              [mem_total_kb |-> 16, processors |-> 2]}

\* a live process's counters: utime in ticks and rss in pages
ProcStates == {[utime |-> 50, rss |-> 1], [utime |-> 80, rss |-> 3]}

ProcStatesFixed == {[utime |-> 50, rss |-> 1]}

\* kernel process tables: any set of live pids, each in any of the states
Tables(states) == UNION {[alive -> states] : alive \in SUBSET Pids}

Keys == {"q", "s", "KEY_DOWN", "KEY_UP", "r", "k"}

\* the intervals an 'r' command may ask for
NewIntervals == {1, 5}

Terminated == pc \in {"exited", "aborted"}

(***************************************************************************)
(* main.                                                                   *)
(***************************************************************************)
NoSnap == [total_jiffies |-> 0, mem_total_kb |-> 0, num_cpus |-> 1]

InitMain(rowChoices) ==
    /\ proc_ok \in BOOLEAN
    /\ hw \in HwChoices
    /\ rows \in rowChoices
    /\ pc = "start"
    /\ prev_snap = NoSnap
    /\ prev_procs = EmptyMap
    /\ cur_snap = NoSnap
    /\ cur_procs = EmptyMap
    /\ plist = <<>>
    /\ refresh_interval = 2
    /\ sort_by_cpu = TRUE
    /\ offset = 0
    /\ input = <<>>
    /\ cycle = 0
    /\ last_sleep = 0
    /\ requested = 0
    /\ quit_waits = 0
    /\ live = {}
    /\ dirents = {}
    /\ procfs = EmptyMap
    /\ procs = EmptyMap

\* lines 230-235: the two reads before the loop
Startup(cpuLines, tables) ==
    /\ pc = "start"
    /\ \E t \in tables :
       \E r \in {read_all_procs(proc_ok, DirNames(DOMAIN t), ProcFsOf(t))} :
       \E cpuLine \in cpuLines :
         /\ prev_snap' = read_system_snapshot(proc_ok, cpuLine, hw)
         /\ IF r.status = "throw"
            THEN pc' = "aborted" /\ UNCHANGED prev_procs
            ELSE pc' = "loop_top" /\ prev_procs' = r.procs
    /\ UNCHANGED <<proc_ok, hw, rows, cur_snap, cur_procs, plist, refresh_interval,
                   sort_by_cpu, offset, input, cycle, last_sleep, requested,
                   quit_waits, live, dirents, procfs, procs>>

\* lines 238-255: sample, account, rank and draw
Cycle(cpuLines, tables) ==
    /\ pc = "loop_top"
    /\ \E t \in tables :
       \E r \in {read_all_procs(proc_ok, DirNames(DOMAIN t), ProcFsOf(t))} :
       \E cpuLine \in cpuLines :
       \E snap \in {read_system_snapshot(proc_ok, cpuLine, hw)} :
         /\ live' = DOMAIN t
         /\ IF r.status = "throw"
            THEN pc' = "aborted" /\ UNCHANGED <<cur_snap, cur_procs, plist>>
            ELSE \E accounted \in
                      {compute_cpu_mem_percent(r.procs, prev_procs, snap, prev_snap)} :
                   /\ pc' = "drawn"
                   /\ cur_snap' = snap
                   /\ cur_procs' = accounted
                   /\ plist' = Rank(accounted, sort_by_cpu)
    /\ cycle' = IF cycle < 2 THEN cycle + 1 ELSE cycle
    /\ UNCHANGED <<proc_ok, hw, rows, prev_snap, prev_procs, refresh_interval,
                   sort_by_cpu, offset, input, last_sleep, requested, quit_waits,
                   dirents, procfs, procs>>

\* lines 257-268: one getch, the key's effect, the rotation of the snapshots and
\* the start of the sleep; 'q' leaves the loop (lines 271-274)
Getch ==
    /\ pc = "drawn"
    /\ LET ch == IF input = <<>> THEN "ERR" ELSE Head(input)
       IN  /\ input' = IF input = <<>> THEN input ELSE Tail(input)
           /\ IF ch = "q"
              THEN /\ pc' = "exited"
                   /\ prev_snap' = NoSnap
                   /\ prev_procs' = EmptyMap
                   /\ UNCHANGED <<sort_by_cpu, offset, last_sleep, requested>>
              ELSE /\ pc' = "sleeping"
                   /\ sort_by_cpu' = IF ch = "s" THEN ~sort_by_cpu ELSE sort_by_cpu
                   /\ offset' = IF ch = "KEY_DOWN" /\ offset + (rows - 3) < Len(plist)
                                THEN offset + 1
                                ELSE IF ch = "KEY_UP" /\ offset > 0
                                     THEN offset - 1
                                     ELSE offset
                   /\ prev_snap' = cur_snap
                   /\ prev_procs' = cur_procs
                   /\ last_sleep' = refresh_interval
                   /\ IF ch = "r"
                      THEN \E n \in NewIntervals : requested' = n
                      ELSE UNCHANGED requested
    /\ cur_snap' = NoSnap
    /\ cur_procs' = EmptyMap
    /\ plist' = <<>>
    /\ live' = {}
    /\ UNCHANGED <<proc_ok, hw, rows, refresh_interval, cycle, quit_waits,
                   dirents, procfs, procs>>

\* line 268: sleep_for returns and the loop starts over
Wake ==
    /\ pc = "sleeping"
    /\ pc' = "loop_top"
    /\ quit_waits' = IF \E i \in 1..Len(input) : input[i] = "q"
                     THEN quit_waits + 1
                     ELSE quit_waits
    /\ UNCHANGED <<proc_ok, hw, rows, prev_snap, prev_procs, cur_snap, cur_procs,
                   plist, refresh_interval, sort_by_cpu, offset, input, cycle,
                   last_sleep, requested, live, dirents, procfs, procs>>

\* the user types a key: the terminal queues it until getch takes it
KeyPress(keys) ==
    /\ ~Terminated
    /\ Len(input) < MaxQueue
    /\ \E k \in keys : input' = Append(input, k)
    /\ UNCHANGED <<proc_ok, hw, rows, pc, prev_snap, prev_procs, cur_snap, cur_procs,
                   plist, refresh_interval, sort_by_cpu, offset, cycle, last_sleep,
                   requested, quit_waits, live, dirents, procfs, procs>>

(***************************************************************************)
(* The accounting runs: every counter varies, the only key is 's'.         *)
(***************************************************************************)
Init == InitMain({5})

Next ==
    \/ Startup(CpuLines, Tables(ProcStates))
    \/ Cycle(CpuLines, Tables(ProcStates))
    \/ Getch
    \/ Wake
    \/ KeyPress({"s"})

Spec == Init /\ [][Next]_vars

(***************************************************************************)
(* The key runs: every key, the processes come and go with fixed counters. *)
(***************************************************************************)
InitLoop == InitMain({4, 5})

NextLoop ==
    \/ Startup(CpuLinesFixed, Tables(ProcStatesFixed))
    \/ Cycle(CpuLinesFixed, Tables(ProcStatesFixed))
    \/ Getch
    \/ Wake
    \/ KeyPress(Keys)

SpecLoop == InitLoop /\ [][NextLoop]_vars

(***************************************************************************)
(* The scan runs: read_all_procs entry by entry over records of any shape. *)
(***************************************************************************)
\* "<pid> (a) S 0 0": too few fields
ShortRecord(pid) == ToDigits(pid) \o <<" ", "(", "a", ")", " ", "S", " ", "0", " ", "0">>

\* "<pid> a S 0": no parenthesis
NoParenRecord(pid) == ToDigits(pid) \o <<" ", "a", " ", "S", " ", "0">>

\* "<pid> (a)": nothing after the closing parenthesis
EndsAtParenRecord(pid) == ToDigits(pid) \o <<" ", "(", "a", ")">>

\* "<pid> (a) ": one blank after the closing parenthesis
BlankAfterParenRecord(pid) == ToDigits(pid) \o <<" ", "(", "a", ")", " ">>

\* the contents /proc/<pid>/stat may have, well-formed or not
StatContents(pid) ==
    {ProcStatLine(pid, 7, 3),
     StatRecord(pid, <<"x">>, <<"3">>),
     StatRecord(pid, <<"7">>, <<"x">>),
     StatRecord(pid, <<"7", "x">>, <<"3">>),
     ShortRecord(pid), NoParenRecord(pid), EndsAtParenRecord(pid),
     BlankAfterParenRecord(pid), NoFile}

InitScan ==
    /\ proc_ok = TRUE
    /\ hw \in HwChoices
    /\ rows = 5
    /\ pc = "scanning"
    /\ prev_snap = NoSnap
    /\ prev_procs = EmptyMap
    /\ cur_snap = NoSnap
    /\ cur_procs = EmptyMap
    /\ plist = <<>>
    /\ refresh_interval = 2
    /\ sort_by_cpu = TRUE
    /\ offset = 0
    /\ input = <<>>
    /\ cycle = 0
    /\ last_sleep = 0
    /\ requested = 0
    /\ quit_waits = 0
    /\ live = {}
    /\ dirents = DirNames(Pids)
    /\ procfs \in {f \in [Pids -> UNION {StatContents(pid) : pid \in Pids}] :
                     \A pid \in Pids : f[pid] \in StatContents(pid)}
    /\ procs = EmptyMap

\* lines 115-161: readdir returns one more entry and the loop body runs on it
ScanStep ==
    /\ pc = "scanning"
    /\ \E name \in dirents :
       \E r \in {ScanEntry(procs, name, procfs)} :
         /\ dirents' = dirents \ {name}
         /\ IF r.status = "throw"
            THEN pc' = "aborted" /\ UNCHANGED procs
            ELSE pc' = pc /\ procs' = r.procs
    /\ UNCHANGED <<mainVars, procfs>>

\* lines 162-163: readdir returns null; closedir and return
ScanDone ==
    /\ pc = "scanning"
    /\ dirents = {}
    /\ pc' = "scanned"
    /\ UNCHANGED <<mainVars, dirents, procfs, procs>>

NextScan == ScanStep \/ ScanDone

SpecScan == InitScan /\ [][NextScan]_vars

(***************************************************************************)
(* Properties.                                                             *)
(***************************************************************************)
Hundred(k) == [n |-> 100 * k, d |-> 1]

PidsOf(list) == {list[i].pid : i \in 1..Len(list)}

\* the multiset of the entries of a list
BagOfSeq(list) ==
    [x \in {list[i] : i \in 1..Len(list)} |-> Cardinality({i \in 1..Len(list) : list[i] = x})]

\* the multiset of the values of a map
BagOfMap(map) ==
    [x \in {map[k] : k \in DOMAIN map} |-> Cardinality({k \in DOMAIN map : map[k] = x})]

Metric(p, by_cpu) == IF by_cpu THEN p.cpu_percent ELSE p.mem_percent

\* C1: every process the accountant emits has 0 <= cpuPercent <= 100 * cpuCount
\* and 0 <= memoryPercent <= 100.
PercentsWithinRange ==
    pc = "drawn" =>
        \A i \in 1..Len(plist) :
            /\ RatLeq(Zero, plist[i].cpu_percent)
            /\ RatLeq(plist[i].cpu_percent, Hundred(cur_snap.num_cpus))
            /\ RatLeq(Zero, plist[i].mem_percent)
            /\ RatLeq(plist[i].mem_percent, Hundred(1))

CpuPercentIsReference ==
    (pc = "drawn" /\ cur_snap.total_jiffies > prev_snap.total_jiffies) =>
        \A i \in 1..Len(plist) :
            LET p == plist[i]
                delta == cur_snap.total_jiffies - prev_snap.total_jiffies
            IN  IF p.pid \notin DOMAIN prev_procs
                THEN p.cpu_percent = Zero
                ELSE LET before == prev_procs[p.pid].total_time
                     IN  /\ RatLeq(Zero, p.cpu_percent)
                         /\ p.cpu_percent.n * delta =
                              Max(0, p.total_time - before) * 100 * cur_snap.num_cpus
                                * p.cpu_percent.d
                         /\ (p.total_time = 80 /\ before = 50 /\ delta = 100
                               /\ cur_snap.num_cpus = 2) => p.cpu_percent = [n |-> 60, d |-> 1]
                         /\ (p.total_time = 50 /\ before = 80) => p.cpu_percent = Zero

\* the scenario of the claim: 50 -> 80 ticks over 1000 -> 1100 on 2 CPUs, beside a
\* process that is new in this cycle
ScenarioSixtyPercent ==
    /\ pc = "drawn"
    /\ prev_snap.total_jiffies = 1000 /\ cur_snap.total_jiffies = 1100
    /\ cur_snap.num_cpus = 2
    /\ \E i \in 1..Len(plist) :
         /\ plist[i].pid \in DOMAIN prev_procs
         /\ prev_procs[plist[i].pid].total_time = 50
         /\ plist[i].total_time = 80
         /\ plist[i].cpu_percent = [n |-> 60, d |-> 1]
    /\ \E i \in 1..Len(plist) : plist[i].pid \notin DOMAIN prev_procs

\* C4: the pids of the ranked output are exactly the pids alive at the current
\* read, each once; a pid only in the previous snapshot is not in the output.
OutputPidsAreCurrentPids ==
    pc = "drawn" =>
        /\ PidsOf(plist) = (IF proc_ok THEN live ELSE {})
        /\ Len(plist) = Cardinality(PidsOf(plist))
        /\ \A pid \in DOMAIN prev_procs : pid \notin live => pid \notin PidsOf(plist)

\* a cycle in which one process has gone and another has appeared
ProcessChurn ==
    /\ pc = "drawn"
    /\ \E pid \in DOMAIN prev_procs : pid \notin live
    /\ \E pid \in PidsOf(plist) : pid \notin DOMAIN prev_procs

\* C5: the offset is always within [0, max(0, count - pageSize)] of the list
\* being displayed.
OffsetWithinList ==
    pc = "drawn" =>
        /\ 0 <= offset
        /\ offset <= Max(0, Len(plist) - (rows - 3))
        /\ plist # <<>> => Window(plist, offset, rows - 3) # <<>>

\* C6: the ranked list is a permutation of the accounted set, ordered
\* non-increasingly by the active metric; ranking by CPU and by memory gives
\* the same multiset.
RankedIsSortedPermutation ==
    pc = "drawn" =>
        /\ BagOfSeq(plist) = BagOfMap(cur_procs)
        /\ \A i, j \in 1..Len(plist) :
             i < j => RatLeq(Metric(plist[j], sort_by_cpu), Metric(plist[i], sort_by_cpu))
        /\ BagOfSeq(Rank(cur_procs, TRUE)) = BagOfSeq(Rank(cur_procs, FALSE))

\* a list sorted by memory that differs from the key order and from the CPU order
RankedByMemoryReordered ==
    /\ pc = "drawn"
    /\ ~sort_by_cpu
    /\ Len(plist) >= 2
    /\ plist # MapValues(cur_procs, {})
    /\ plist # Rank(cur_procs, TRUE)
    /\ RatLess(plist[Len(plist)].mem_percent, plist[1].mem_percent)

\* C7: once a quit command is issued, at most one further wait between cycles
\* ends before the loop ends.
QuitWithinOneWait == quit_waits <= 1

\* C8: a malformed or short record never aborts the scan, and the process it
\* belongs to is in the resulting map.
ScanToleratesMalformed ==
    /\ pc # "aborted"
    /\ pc = "scanned" =>
         \A pid \in DOMAIN procfs : procfs[pid] # NoFile => pid \in DOMAIN procs

\* C9: when /proc cannot be opened at startup the program never enters the
\* refresh loop.
UnavailableFailsFast == ~proc_ok => cycle = 0

\* C10: once an 'r' command has been received, every wait uses the interval it
\* asked for.
IntervalFollowsRequest ==
    (pc = "sleeping" /\ requested # 0) => last_sleep = requested

====
